---- MODULE Spec2Model ----
(***************************************************************************)
(* Model of src/esp.py: the ESP class, a driver that talks to an ESP8266   *)
(* WiFi module with AT commands over a UART.                               *)
(*                                                                         *)
(* Byte strings (Python bytes) and command texts (Python str) are          *)
(* sequences of one-character strings, so that suffix tests, substring     *)
(* tests, split and int() are computed as the code computes them.          *)
(*                                                                         *)
(* The driver is single threaded.  Its control state is a call stack of    *)
(* frames; every action is one step of the function on top of the stack.   *)
(* call is the call the host application made and the state the module    *)
(* was in when it was made, outcome is the result of the call.  The        *)
(* UART receive FIFO is rx, the ESP8266 module is modem, now is the value  *)
(* of time.time(), and log is the history of the driver's effects (uart    *)
(* writes, sleeps, prints, the end of each read loop, each return or raise *)
(* of send_at_cmd), each with the time it happened at.                     *)
(***************************************************************************)
EXTENDS Integers, Sequences, FiniteSets, TLC

VARIABLES call, stack, ret, outcome, now, rx, wire, log, modem, faults, strict

vars == <<call, stack, ret, outcome, now, rx, wire, log, modem, faults, strict>>

(***************************************************************************)
(* Bounds of the model.                                                    *)
(***************************************************************************)
\* Largest timeout (clock ticks) the host passes to a direct send_at_cmd call.
MaxTimeout == 1
\* Number of times, per host call, the module changes its condition (from
\* answering as documented to silent, busy, late, ... and back).
MaxFaults == 1
\* Number of times the except clause of connect is entered.
MaxLoops == 2
\* Number of bytes a module that sends without end delivers per clock tick.
MaxBurst == 1

(***************************************************************************)
(* Class constants, src/esp.py lines 5-12.                                 *)
(***************************************************************************)
STATUS_APCONNECTED == 2
STATUS_SOCKETOPEN == 3
STATUS_SOCKETCLOSED == 4
STATUS_NOTCONNECTED == 5
MODE_STATION == 1
MODE_SOFTAP == 2
MODE_SOFTAPSTATION == 3

(***************************************************************************)
(* Byte and text literals of the source.                                   *)
(***************************************************************************)
CRLF == <<"\r", "\n">>
B_OK == <<"O", "K", "\r", "\n">>
B_ERROR == <<"E", "R", "R", "O", "R", "\r", "\n">>
B_WIFI_GOT_IP == <<"W", "I", "F", "I", " ", "G", "O", "T", " ", "I", "P", "\r", "\n">>
B_WIFI_CONNECTED == <<"W", "I", "F", "I", " ", "C", "O", "N", "N", "E", "C", "T", "E", "D", "\r", "\n">>
B_ERR_CODE == <<"E", "R", "R", " ", "C", "O", "D", "E", ":">>
B_STATUS == <<"S", "T", "A", "T", "U", "S", ":">>
B_CWJAP == <<"+", "C", "W", "J", "A", "P", ":">>
B_CWMODE == <<"+", "C", "W", "M", "O", "D", "E", ":">>
S_CWJAP_EQ == <<"A", "T", "+", "C", "W", "J", "A", "P", "=">>
S_PING == <<"A", "T", "+", "P", "I", "N", "G">>
S_CIPSTATUS == <<"A", "T", "+", "C", "I", "P", "S", "T", "A", "T", "U", "S">>
S_CWJAP_Q == <<"A", "T", "+", "C", "W", "J", "A", "P", "?">>
S_CWMODE_Q == <<"A", "T", "+", "C", "W", "M", "O", "D", "E", "?">>
S_CWMODE_EQ == <<"A", "T", "+", "C", "W", "M", "O", "D", "E", "=">>
S_JOIN_HEAD == <<"A", "T", "+", "C", "W", "J", "A", "P", "=", "\"">>
S_JOIN_MID == <<"\"", ",", "\"">>
S_PING_HEAD == <<"A", "T", "+", "P", "I", "N", "G", "=", "\"">>
QUOTE == <<"\"">>
S_CIFSR == <<"A", "T", "+", "C", "I", "F", "S", "R">>
B_CIFSR_STAIP == <<"+", "C", "I", "F", "S", "R", ":", "S", "T", "A", "I", "P", ",", "\"">>
S_CWLAP == <<"A", "T", "+", "C", "W", "L", "A", "P">>
B_CWLAP == <<"+", "C", "W", "L", "A", "P", ":", "(">>

(***************************************************************************)
(* Python sequence primitives used by the source.                          *)
(***************************************************************************)
\* s[-n:] == t for Len(t) = n, e.g. response[-4:] == b"OK\r\n"
EndsWith(s, t) ==
    /\ Len(s) >= Len(t)
    /\ SubSeq(s, Len(s) - Len(t) + 1, Len(s)) = t

\* s.startswith(t)
StartsWith(s, t) ==
    /\ Len(s) >= Len(t)
    /\ SubSeq(s, 1, Len(t)) = t

\* t in s (substring test on bytes or str)
Contains(s, t) ==
    \/ t = <<>>
    \/ \E i \in 1..(Len(s) - Len(t) + 1) :
          s[i] = t[1] /\ SubSeq(s, i, i + Len(t) - 1) = t

\* s.find(t) + 1, or 0 when t does not occur in s
FindFirst(s, t) ==
    LET at == {i \in 1..(Len(s) - Len(t) + 1) : SubSeq(s, i, i + Len(t) - 1) = t}
    IN  IF at = {} THEN 0 ELSE CHOOSE i \in at : \A j \in at : i <= j

\* s.split(sep): always at least one piece
RECURSIVE Split(_, _)
Split(s, sep) ==
    LET i == FindFirst(s, sep) IN
    IF i = 0 THEN <<s>>
    ELSE <<SubSeq(s, 1, i - 1)>> \o Split(SubSeq(s, i + Len(sep), Len(s)), sep)

\* s[a:b] with 0-based non-negative a, b (b may exceed the length)
Slice(s, a, b) ==
    SubSeq(s, a + 1, IF b < Len(s) THEN b ELSE Len(s))

\* s[a:]
SliceFrom(s, a) == SubSeq(s, a + 1, Len(s))

\* s[:-n]
DropLast(s, n) == SubSeq(s, 1, Len(s) - n)

\* s.strip(chars): remove leading and trailing characters that are in chars
RECURSIVE LStrip(_, _)
LStrip(s, chars) ==
    IF s # <<>> /\ Head(s) \in chars THEN LStrip(Tail(s), chars) ELSE s

RECURSIVE RStrip(_, _)
RStrip(s, chars) ==
    IF s # <<>> /\ s[Len(s)] \in chars THEN RStrip(DropLast(s, 1), chars) ELSE s

Strip(s, chars) == RStrip(LStrip(s, chars), chars)

(***************************************************************************)
(* Python values: None, int, str, bytes, bool and list, tagged by type.    *)
(***************************************************************************)
PyNone == [t |-> "none", v |-> <<>>]
PyInt(n) == [t |-> "int", v |-> n]
PyStr(s) == [t |-> "str", v |-> s]
PyBytes(b) == [t |-> "bytes", v |-> b]
PyBool(b) == [t |-> "bool", v |-> b]
PyList(l) == [t |-> "list", v |-> l]

\* a == b of Python for the values above
PyEq(a, b) == a.t = b.t /\ a.v = b.v

\* An exception object: its class, its message and the text appended to it.
Exc(type, msg, arg) == [type |-> type, msg |-> msg, arg |-> arg]

NoValue == [t |-> "unset", v |-> <<>>]

(***************************************************************************)
(* The call stack.                                                         *)
(***************************************************************************)
Top == stack[Len(stack)]

Running(fn, pc) ==
    /\ stack # <<>>
    /\ Top.fn = fn
    /\ Top.pc = pc

Caller == SubSeq(stack, 1, Len(stack) - 1)

\* Replace the frame on top of the stack
WithTop(f) == Caller \o <<f>>

\* Frame of a call of send_at_cmd(at_cmd, timeout, retries), line 56
SendFrame(at_cmd, timeout, retries) ==
    [fn |-> "send_at_cmd", pc |-> "for", at_cmd |-> at_cmd, timeout |-> timeout,
     retries |-> retries, i |-> 0, stamp |-> 0, response |-> <<>>]

\* An event of the history log, at the current time
Ev(ev, data) == [ev |-> ev, data |-> data, at |-> now]


(***************************************************************************)
(* The ESP8266 module and the UART, as seen through uart.write, uart.any   *)
(* and uart.read (lines 64-71).  modem is what the module answers to       *)
(* AT+CWMODE?, AT+CIPSTATUS and AT+CWJAP?, and the condition it is in.     *)
(* Every command written makes the module emit a reply: into rx, the       *)
(* receive FIFO, or, when the module is late, onto the wire, from where it *)
(* reaches rx when the deadline of the attempt has passed.  Bytes still in *)
(* rx when a read loop ends stay there.  A reply arrives as a whole,       *)
(* before or after a deadline: the clock (one tick is one unit of          *)
(* time.time()) advances while the driver finds the FIFO empty, not        *)
(* between two bytes of a reply.  The UART object exists (line 32 did not  *)
(* raise).                                                                 *)
(***************************************************************************)
Digits == <<"0", "1", "2", "3", "4", "5", "6", "7", "8", "9">>

Digit(n) == Digits[n + 1]

OkTail == CRLF \o B_OK

IsJoinCmd(at_cmd) == StartsWith(at_cmd, S_JOIN_HEAD)

\* The ssid named by AT+CWJAP="ssid","password"
JoinSsid(at_cmd) ==
    LET rest == SliceFrom(at_cmd, Len(S_JOIN_HEAD)) IN
    SubSeq(rest, 1, FindFirst(rest, S_JOIN_MID) - 1)

\* The replies the AT firmware documents for the command, each with the
\* module state after it.
NominalReplies(at_cmd, m) ==
    IF at_cmd = S_CWMODE_Q THEN
        {[bytes |-> B_CWMODE \o <<Digit(m.mode)>> \o CRLF \o OkTail, modem |-> m]}
    ELSE IF at_cmd = S_CIPSTATUS THEN
        {[bytes |-> B_STATUS \o <<Digit(m.status)>> \o CRLF \o OkTail, modem |-> m]}
    ELSE IF at_cmd = S_CWJAP_Q THEN
        IF m.ap = <<>>
        THEN {[bytes |-> <<"N", "o", " ", "A", "P">> \o CRLF \o OkTail, modem |-> m]}
        ELSE {[bytes |-> B_CWJAP \o QUOTE \o m.ap \o QUOTE \o <<",", "6">> \o CRLF \o OkTail,
               modem |-> m]}
    ELSE IF IsJoinCmd(at_cmd) THEN
        {[bytes |-> B_WIFI_CONNECTED \o B_WIFI_GOT_IP \o OkTail,
          modem |-> [m EXCEPT !.status = STATUS_APCONNECTED, !.ap = JoinSsid(at_cmd)]],
         [bytes |-> B_CWJAP \o <<"1">> \o CRLF \o CRLF \o <<"F", "A", "I", "L">> \o CRLF,
          modem |-> [m EXCEPT !.status = STATUS_NOTCONNECTED, !.ap = <<>>]]}
    ELSE IF at_cmd = S_CIFSR THEN
        {[bytes |-> B_CIFSR_STAIP \o <<"7", "\"">> \o CRLF \o OkTail, modem |-> m]}
    ELSE IF at_cmd = S_CWLAP THEN
        {[bytes |-> B_CWLAP \o <<"3", ",", "\"", "a", "\"", ")">> \o CRLF \o OkTail,
          modem |-> m]}
    ELSE IF StartsWith(at_cmd, S_PING_HEAD) THEN
        {[bytes |-> <<"+", "7">> \o CRLF \o OkTail, modem |-> m],
         [bytes |-> <<"+", "t", "i", "m", "e", "o", "u", "t">> \o CRLF \o CRLF \o B_ERROR,
          modem |-> m]}
    ELSE
        {[bytes |-> CRLF \o B_ERROR, modem |-> m]}

\* The conditions of the module: "ok" answers as documented; "late" answers
\* as documented, after the deadline; "connected" and "gotip" put an
\* unsolicited WIFI line in front of the answer; "chatter" sends bytes
\* without end, none of them part of a terminator; the others replace the
\* answer.
Conditions ==
    {"ok", "late", "connected", "gotip", "silent", "error", "busy", "errcode", "bare_ok",
     "chatter"}

\* What a module that sends without end delivers in one clock tick
Burst == [i \in 1..MaxBurst |-> "x"]

ModuleAnswers(at_cmd, m) ==
    LET nominal == NominalReplies(at_cmd, m)
        only(b) == {[bytes |-> b, modem |-> m]}
    IN  CASE m.cond \in {"ok", "late"} -> nominal
          [] m.cond = "connected" ->
                {[r EXCEPT !.bytes = B_WIFI_CONNECTED \o @] : r \in nominal}
          [] m.cond = "gotip" ->
                {[r EXCEPT !.bytes = B_WIFI_GOT_IP \o @] : r \in nominal}
          [] m.cond = "silent" -> only(<<>>)
          [] m.cond = "error" -> only(CRLF \o B_ERROR)
          [] m.cond = "busy" -> only(<<"b", "u", "s", "y", " ", "p", ".", ".", ".">> \o CRLF)
          [] m.cond = "errcode" -> only(B_ERR_CODE \o <<"0", "x", "1">> \o CRLF)
          [] m.cond = "bare_ok" -> only(OkTail)
          [] m.cond = "chatter" -> only(Burst)

(***************************************************************************)
(* send_at_cmd, lines 56-100.                                              *)
(***************************************************************************)
\* The break conditions with WIFI CONNECTED ending the frame of every
\* command, the join command included
Terminated_Symmetric(at_cmd, response) ==
    \/ EndsWith(response, B_OK)
    \/ EndsWith(response, B_ERROR)
    \/ Contains(response, B_WIFI_CONNECTED)
    \/ Contains(response, B_ERR_CODE)

\* The break conditions of the read loop, lines 72-83, on the buffer after
\* the byte just read was appended.
Terminated(at_cmd, response) ==
    \/ EndsWith(response, B_OK)
    \/ EndsWith(response, B_ERROR)
    \/ IF Contains(at_cmd, S_CWJAP_EQ)
       THEN Contains(response, B_WIFI_GOT_IP)
       ELSE Contains(response, B_WIFI_CONNECTED)
    \/ Contains(response, B_ERR_CODE)

\* Acceptance without the [:-4] of line 98
Acceptance_NoStrip(at_cmd, response) ==
    IF Contains(at_cmd, S_CWJAP_EQ) /\ Contains(response, B_WIFI_GOT_IP) THEN "full"
    ELSE IF Contains(at_cmd, S_PING) /\ Contains(response, B_ERROR) THEN "full"
    ELSE IF ~EndsWith(response, B_OK) THEN "retry"
    ELSE "full"

\* Acceptance without the join rule of lines 88-89
Acceptance_NoJoinRule(at_cmd, response) ==
    IF Contains(at_cmd, S_PING) /\ Contains(response, B_ERROR) THEN "full"
    ELSE IF ~EndsWith(response, B_OK) THEN "retry"
    ELSE "strip"

\* Acceptance without the ping rule of lines 91-92
Acceptance_NoPingRule(at_cmd, response) ==
    IF Contains(at_cmd, S_CWJAP_EQ) /\ Contains(response, B_WIFI_GOT_IP) THEN "full"
    ELSE IF ~EndsWith(response, B_OK) THEN "retry"
    ELSE "strip"

\* What happens to the buffer once the read loop is over, lines 88-98:
\* "full" returns it, "strip" returns it without its last four bytes,
\* "retry" sleeps and continues with the next iteration.
Acceptance(at_cmd, response) ==
    IF Contains(at_cmd, S_CWJAP_EQ) /\ Contains(response, B_WIFI_GOT_IP) THEN "full"
    ELSE IF Contains(at_cmd, S_PING) /\ Contains(response, B_ERROR) THEN "full"
    ELSE IF ~EndsWith(response, B_OK) THEN "retry"
    ELSE "strip"

\* The value of response[:-4], line 98
Payload(response) == DropLast(response, 4)

\* Line 100 raising a failure that carries the buffer of the last attempt
NoOkException_CarriesBuffer(at_cmd, response) ==
    Exc("ProtocolError", "No OK response to ", response)

\* The exception of line 100
NoOkException(at_cmd, response) == Exc("Exception", "No OK response to ", at_cmd)

\* The handlers of connect, lines 108-116, and of get_APs, lines 234-239,
\* catch RuntimeError; the frames between the raise and the handler are
\* dropped.
Handles(frame, exc) ==
    /\ exc.type = "RuntimeError"
    /\ frame.fn \in {"connect", "get_APs"}

RECURSIVE Unwind(_, _)
Unwind(st, exc) ==
    IF st = <<>> THEN <<>>
    ELSE IF Handles(st[Len(st)], exc) THEN st
    ELSE Unwind(SubSeq(st, 1, Len(st) - 1), exc)

NoExc == Exc("", "", <<>>)

\* Return v from the function on top of the stack to its caller
Return(v) ==
    /\ stack' = Caller
    /\ ret' = v
    /\ outcome' = IF Caller = <<>>
                  THEN [kind |-> "returned", value |-> v, exc |-> NoExc]
                  ELSE outcome

\* Raise exc in the function on top of the stack
Raise(exc) ==
    LET st == Unwind(Caller, exc) IN
    /\ ret' = NoValue
    /\ IF st = <<>>
       THEN /\ stack' = <<>>
            /\ outcome' = [kind |-> "raised", value |-> NoValue, exc |-> exc]
       ELSE /\ stack' = SubSeq(st, 1, Len(st) - 1) \o <<[st[Len(st)] EXCEPT !.pc = "except"]>>
            /\ outcome' = outcome

\* The while loop of line 69 ending one tick early
Expired_Early(time, stamp, timeout) == ~((time - stamp) < timeout - 1)

\* The condition of the while loop of line 69, negated
Expired(time, stamp, timeout) == ~((time - stamp) < timeout)

\* Lines 60-67: the next iteration of the for loop writes the command and
\* CR LF, takes the time stamp and empties the buffer.  The module answers
\* the command.
Attempt ==
    /\ Running("send_at_cmd", "for")
    /\ Top.i < Top.retries
    /\ \E c \in (IF faults < MaxFaults THEN Conditions ELSE {modem.cond}) :
       \E r \in ModuleAnswers(Top.at_cmd, [modem EXCEPT !.cond = c]) :
          /\ modem' = r.modem
          /\ faults' = IF c = modem.cond THEN faults ELSE faults + 1
          /\ IF c = "late"
             THEN wire' = wire \o r.bytes /\ rx' = rx
             ELSE wire' = <<>> /\ rx' = rx \o wire \o r.bytes
    /\ log' = log \o <<Ev("write", Top.at_cmd), Ev("write", CRLF)>>
    /\ stack' = WithTop([Top EXCEPT !.i = @ + 1, !.stamp = now, !.response = <<>>,
                                    !.pc = "read"])
    /\ UNCHANGED <<call, ret, outcome, now, strict>>

\* Lines 69-83: the deadline has not passed and uart.any() is true; one
\* byte is read and appended, and the break conditions are tested.
ReadByte ==
    /\ Running("send_at_cmd", "read")
    /\ ~Expired(now, Top.stamp, Top.timeout)
    /\ rx # <<>>
    /\ LET response == Append(Top.response, Head(rx))
           done == Terminated(Top.at_cmd, response) IN
       /\ stack' = WithTop([Top EXCEPT !.response = response,
                                       !.pc = IF done THEN "after" ELSE "read"])
       /\ log' = IF done THEN Append(log, Ev("break", response)) ELSE log
    /\ rx' = Tail(rx)
    /\ UNCHANGED <<call, ret, outcome, now, wire, modem, faults, strict>>

\* Lines 69-71 with uart.read(1) called while the FIFO is empty and not
\* returning before a byte has come: the while condition is not evaluated
\* again.
Tick_ReadBlocks ==
    /\ Running("send_at_cmd", "read")
    /\ ~Expired(now, Top.stamp, Top.timeout)
    /\ rx = <<>>
    /\ rx' = rx
    /\ rx' # <<>>
    /\ now' = now + 1
    /\ UNCHANGED <<call, stack, ret, outcome, wire, log, modem, faults, strict>>

\* Lines 69-70: the deadline has not passed, uart.any() is false and
\* time.time() advances by one.  A module that sends without end has
\* delivered its next bytes by then.
Tick ==
    /\ Running("send_at_cmd", "read")
    /\ ~Expired(now, Top.stamp, Top.timeout)
    /\ rx = <<>>
    /\ now' = now + 1
    /\ rx' = IF modem.cond = "chatter" THEN Burst ELSE rx
    /\ UNCHANGED <<call, stack, ret, outcome, wire, log, modem, faults, strict>>

\* Line 69: the deadline has passed and the while loop ends.  What a late
\* module sent reaches the receive FIFO now.
Deadline ==
    /\ Running("send_at_cmd", "read")
    /\ Expired(now, Top.stamp, Top.timeout)
    /\ stack' = WithTop([Top EXCEPT !.pc = "after"])
    /\ log' = Append(log, Ev("deadline", Top.response))
    /\ rx' = rx \o wire
    /\ wire' = <<>>
    /\ UNCHANGED <<call, ret, outcome, now, modem, faults, strict>>

\* Lines 88-98 with an accepted buffer: return it, whole or stripped.
Accept ==
    /\ Running("send_at_cmd", "after")
    /\ Acceptance(Top.at_cmd, Top.response) # "retry"
    /\ LET v == IF Acceptance(Top.at_cmd, Top.response) = "full"
                THEN Top.response
                ELSE Payload(Top.response) IN
       /\ Return(PyBytes(v))
       /\ log' = Append(log, Ev("return", v))
    /\ UNCHANGED <<call, now, rx, wire, modem, faults, strict>>

\* Lines 94-96 raising at once instead of sleeping and continuing
Retry_RaisesAtOnce ==
    /\ Running("send_at_cmd", "after")
    /\ Acceptance(Top.at_cmd, Top.response) = "retry"
    /\ Raise(NoOkException(Top.at_cmd, Top.response))
    /\ log' = Append(log, Ev("raise", NoOkException(Top.at_cmd, Top.response)))
    /\ UNCHANGED <<call, now, rx, wire, modem, faults, strict>>

\* Lines 94-96: no trailing OK; time.sleep(1), then continue.
Retry ==
    /\ Running("send_at_cmd", "after")
    /\ Acceptance(Top.at_cmd, Top.response) = "retry"
    /\ stack' = WithTop([Top EXCEPT !.pc = "for"])
    /\ log' = Append(log, Ev("sleep", <<>>))
    /\ now' = now + 1
    /\ UNCHANGED <<call, ret, outcome, rx, wire, modem, faults, strict>>

\* Line 100: the for loop is exhausted.
GiveUp ==
    /\ Running("send_at_cmd", "for")
    /\ ~(Top.i < Top.retries)
    /\ Raise(NoOkException(Top.at_cmd, Top.response))
    /\ log' = Append(log, Ev("raise", NoOkException(Top.at_cmd, Top.response)))
    /\ UNCHANGED <<call, now, rx, wire, modem, faults, strict>>

(***************************************************************************)
(* int() and the reply decoders.                                           *)
(***************************************************************************)
\* The outcome of evaluating an expression: a value or an exception
Ok(v) == [ok |-> TRUE, value |-> v, exc |-> NoExc]
Err(e) == [ok |-> FALSE, value |-> NoValue, exc |-> e]

Finish(res) == IF res.ok THEN Return(res.value) ELSE Raise(res.exc)

DigitVal(c) == CHOOSE n \in 0..9 : Digits[n + 1] = c

RECURSIVE DigitsVal(_)
DigitsVal(s) ==
    IF s = <<>> THEN 0 ELSE 10 * DigitsVal(DropLast(s, 1)) + DigitVal(s[Len(s)])

\* int(s): surrounding whitespace is dropped, then an optional sign and at
\* least one decimal digit; anything else is a ValueError (ok = FALSE).
ParseInt(s) ==
    LET w == Strip(s, {" ", "\t", "\r", "\n"})
        signed == w # <<>> /\ Head(w) \in {"+", "-"}
        d == IF signed THEN Tail(w) ELSE w
        ok == d # <<>> /\ \A i \in 1..Len(d) : \E n \in 0..9 : Digits[n + 1] = d[i]
    IN  [ok |-> ok,
         val |-> IF ~ok THEN 0
                 ELSE IF Head(w) = "-" THEN 0 - DigitsVal(d) ELSE DigitsVal(d)]

ValueError == Exc("ValueError", "invalid literal for int()", <<>>)

\* Index of the first line that starts with prefix, 0 if there is none
FirstWith(lines, prefix) ==
    IF \E k \in 1..Len(lines) : StartsWith(lines[k], prefix)
    THEN CHOOSE k \in 1..Len(lines) :
            /\ StartsWith(lines[k], prefix)
            /\ \A j \in 1..(k - 1) : ~StartsWith(lines[j], prefix)
    ELSE 0

\* Lines 149-153 on the payload returned by send_at_cmd
StatusValue(payload) ==
    LET replies == Split(payload, CRLF)
        k == FirstWith(replies, B_STATUS)
    IN  IF k = 0 THEN Ok(PyNone)
        ELSE LET p == ParseInt(Slice(replies[k], 7, 8)) IN
             IF p.ok THEN Ok(PyInt(p.val)) ELSE Err(ValueError)

\* Lines 182-186
ModeValue(payload) ==
    LET replies == Split(payload, CRLF)
        k == FirstWith(replies, B_CWMODE)
    IN  IF k = 0 THEN Err(Exc("RuntimeError", "Bad response to CWMODE?", <<>>))
        ELSE LET p == ParseInt(SliceFrom(replies[k], 8)) IN
             IF p.ok THEN Ok(PyInt(p.val)) ELSE Err(ValueError)

\* Lines 170-174 and 246-250: an int if int() takes it, else the text
\* without the quote characters at its ends
FieldValue(val) ==
    LET p == ParseInt(val) IN
    IF p.ok THEN PyInt(p.val) ELSE PyStr(Strip(val, {"\""}))

FieldValues(csv) ==
    LET parts == Split(csv, <<",">>) IN
    [i \in 1..Len(parts) |-> FieldValue(parts[i])]

\* [None] * 4, lines 161 and 178
NullRecord == PyList(<<PyNone, PyNone, PyNone, PyNone>>)

\* Lines 163-178.  Line 166 calls bytes.startswith with a str argument:
\* an interpreter that is strict about it raises TypeError on the first
\* line of the reply, one that is not compares the bytes.  Which of the
\* two the interpreter does is fixed, and is recorded in strict the first
\* time line 166 runs ("untried" before).
ApValue(payload, strictStartswith) ==
    LET replies == Split(payload, CRLF)
        k == FirstWith(replies, B_CWJAP)
    IN  IF strictStartswith
        THEN Err(Exc("TypeError", "startswith first arg must be bytes", <<>>))
        ELSE IF k = 0 THEN Ok(NullRecord)
        ELSE Ok(PyList(FieldValues(SliceFrom(replies[k], 7))))

\* Lines 137-144: state in (2, 3, 4)
IsConnectedValue(state) ==
    PyBool(\E n \in {STATUS_APCONNECTED, STATUS_SOCKETOPEN, STATUS_SOCKETCLOSED} :
              PyEq(state, PyInt(n)))

\* Lines 200-204 on the payload returned by send_at_cmd
LocalIpValue(payload) ==
    LET lines == Split(Strip(payload, {"\r", "\n"}), CRLF)
        k == FirstWith(lines, B_CIFSR_STAIP)
    IN  IF k = 0 THEN Err(Exc("RuntimeError", "Couldn't find IP address", <<>>))
        ELSE Ok(PyStr(DropLast(SliceFrom(lines[k], 14), 1)))

\* Lines 240-252: one list of fields for every line that starts with
\* +CWLAP:(, in the order of the lines
ScanValue(payload) ==
    LET scan == Split(payload, CRLF)
        found == SelectSeq(scan, LAMBDA line : StartsWith(line, B_CWLAP))
    IN  PyList([i \in 1..Len(found) |->
                   PyList(FieldValues(DropLast(SliceFrom(found[i], 8), 1)))])

(***************************************************************************)
(* Calls: the frames pushed for a call, down to the send_at_cmd it starts  *)
(* with.                                                                   *)
(***************************************************************************)
\* status, line 149
StatusCall ==
    <<[fn |-> "status", pc |-> "decode"], SendFrame(S_CIPSTATUS, 5, 3)>>

\* remote_AP, line 158
RemoteApCall == <<[fn |-> "remote_AP", pc |-> "stat"]>> \o StatusCall

\* mode (getter), line 182
ModeCall ==
    <<[fn |-> "mode", pc |-> "decode"], SendFrame(S_CWMODE_Q, 5, 3)>>

\* mode (setter), line 189
ModeSetCall(mode) == <<[fn |-> "mode_set", pc |-> "guard", mode |-> mode]>>

\* join_ap, line 210
JoinApCall(ssid, password) ==
    <<[fn |-> "join_ap", pc |-> "mode", ssid |-> ssid, password |-> password]>> \o ModeCall

\* connect, lines 106-109
ConnectCall(secrets) ==
    <<[fn |-> "connect", pc |-> "ap", secrets |-> secrets, retries |-> 3]>> \o RemoteApCall

\* is_connected, line 136
IsConnectedCall == <<[fn |-> "is_connected", pc |-> "state"]>> \o StatusCall

\* local_ip, line 200: timeout and retries are the defaults of line 56
LocalIpCall ==
    <<[fn |-> "local_ip", pc |-> "decode"], SendFrame(S_CIFSR, 20, 3)>>

\* get_APs(retries), line 229, before the first iteration of line 233
GetApsCall(retries) ==
    <<[fn |-> "get_APs", pc |-> "for", retries |-> retries, i |-> 0]>>

JoinCmd(ssid, password) == S_JOIN_HEAD \o ssid \o S_JOIN_MID \o password \o QUOTE

\* Line 45: 'AT+PING="%s"' % host.strip('"')
PingCmd(host) == S_PING_HEAD \o Strip(host, {"\""}) \o QUOTE

(***************************************************************************)
(* status, remote_AP and mode, lines 146-195.                              *)
(***************************************************************************)
StatusDecode ==
    /\ Running("status", "decode")
    /\ Finish(StatusValue(ret.v))
    /\ UNCHANGED <<call, now, rx, wire, log, modem, faults, strict>>

\* Lines 158-163 without the test of line 160: the query is always sent
RemoteApStatus_AlwaysQueries ==
    /\ Running("remote_AP", "stat")
    /\ stack' = WithTop([Top EXCEPT !.pc = "decode"]) \o <<SendFrame(S_CWJAP_Q, 10, 3)>>
    /\ UNCHANGED <<call, ret, outcome, now, rx, wire, log, modem, faults, strict>>

\* Lines 158-163
RemoteApStatus ==
    /\ Running("remote_AP", "stat")
    /\ IF ~PyEq(ret, PyInt(STATUS_APCONNECTED))
       THEN Return(NullRecord)
       ELSE /\ stack' = WithTop([Top EXCEPT !.pc = "decode"]) \o <<SendFrame(S_CWJAP_Q, 10, 3)>>
            /\ UNCHANGED <<ret, outcome>>
    /\ UNCHANGED <<call, now, rx, wire, log, modem, faults, strict>>

\* Lines 163-178
RemoteApDecode ==
    /\ Running("remote_AP", "decode")
    /\ \E s \in (IF strict = "untried" THEN {"TypeError", "compares"} ELSE {strict}) :
          /\ strict' = s
          /\ Finish(ApValue(ret.v, s = "TypeError"))
    /\ UNCHANGED <<call, now, rx, wire, log, modem, faults>>

ModeDecode ==
    /\ Running("mode", "decode")
    /\ Finish(ModeValue(ret.v))
    /\ UNCHANGED <<call, now, rx, wire, log, modem, faults, strict>>

\* Lines 189-195.  Line 191 reads self._initialized, which no line of the
\* class sets: the read raises AttributeError, whatever the mode, and
\* lines 192-195 (begin and at_response are not defined either) never run.
ModeSetResult(mode) ==
    Err(Exc("AttributeError", "'ESP' object has no attribute '_initialized'", <<>>))

ModeSet ==
    /\ Running("mode_set", "guard")
    /\ Finish(ModeSetResult(Top.mode))
    /\ UNCHANGED <<call, now, rx, wire, log, modem, faults, strict>>

(***************************************************************************)
(* join_ap, lines 206-227.                                                 *)
(***************************************************************************)
\* Lines 210-213: the mode was read; set it if it is not station mode, else
\* go on to read remote_AP.  The setter does not return (see ModeSet), so
\* line 213 is reached from line 210 only.
JoinApMode ==
    /\ Running("join_ap", "mode")
    /\ IF ~PyEq(ret, PyInt(MODE_STATION))
       THEN stack' = WithTop([Top EXCEPT !.pc = "set"]) \o ModeSetCall(MODE_STATION)
       ELSE stack' = WithTop([Top EXCEPT !.pc = "router"]) \o RemoteApCall
    /\ UNCHANGED <<call, ret, outcome, now, rx, wire, log, modem, faults, strict>>

\* Line 214 comparing the name with the ssid as bytes, which never match
AlreadyJoined_AsBytes(router, ssid) ==
    /\ router.v # <<>>
    /\ PyEq(router.v[1], PyBytes(ssid))

\* Whether join_ap returns at once after remote_AP, line 214
AlreadyJoined(router, ssid) ==
    /\ router.v # <<>>
    /\ PyEq(router.v[1], PyStr(ssid))

\* Lines 214-219 with a fourth attempt for the join command
JoinApRouter_FourAttempts ==
    /\ Running("join_ap", "router")
    /\ IF AlreadyJoined(ret, Top.ssid)
       THEN Return(PyNone)
       ELSE /\ stack' = WithTop([Top EXCEPT !.pc = "reply"])
                            \o <<SendFrame(JoinCmd(Top.ssid, Top.password), 15, 4)>>
            /\ UNCHANGED <<ret, outcome>>
    /\ UNCHANGED <<call, now, rx, wire, log, modem, faults, strict>>

\* Lines 214-219
JoinApRouter ==
    /\ Running("join_ap", "router")
    /\ IF AlreadyJoined(ret, Top.ssid)
       THEN Return(PyNone)
       ELSE /\ stack' = WithTop([Top EXCEPT !.pc = "reply"])
                            \o <<SendFrame(JoinCmd(Top.ssid, Top.password), 15, 3)>>
            /\ UNCHANGED <<ret, outcome>>
    /\ UNCHANGED <<call, now, rx, wire, log, modem, faults, strict>>

\* Lines 221-227: the two markers are looked for and their absence printed;
\* the first iteration of the for loop returns.
JoinApReply ==
    /\ Running("join_ap", "reply")
    /\ Return(PyNone)
    /\ log' = log
              \o (IF ~Contains(ret.v, DropLast(B_WIFI_CONNECTED, 2))
                  THEN <<Ev("print", "no CONNECTED")>> ELSE <<>>)
              \o (IF ~Contains(ret.v, DropLast(B_WIFI_GOT_IP, 2))
                  THEN <<Ev("print", "no IP")>> ELSE <<>>)
    /\ UNCHANGED <<call, now, rx, wire, modem, faults, strict>>

(***************************************************************************)
(* connect, lines 102-116.                                                 *)
(***************************************************************************)
\* Lines 109-112
ConnectAp ==
    /\ Running("connect", "ap")
    /\ IF ~PyEq(ret.v[1], PyStr(Top.secrets.ssid))
       THEN /\ stack' = WithTop([Top EXCEPT !.pc = "joined"])
                            \o JoinApCall(Top.secrets.ssid, Top.secrets.password)
            /\ UNCHANGED <<ret, outcome>>
       ELSE Return(PyBool(TRUE))
    /\ UNCHANGED <<call, now, rx, wire, log, modem, faults, strict>>

\* Line 112, after join_ap returned
ConnectJoined ==
    /\ Running("connect", "joined")
    /\ Return(PyBool(TRUE))
    /\ UNCHANGED <<call, now, rx, wire, log, modem, faults, strict>>

\* Lines 113-116 and back to line 109
ConnectExcept ==
    /\ Running("connect", "except")
    /\ 3 - Top.retries < MaxLoops
    /\ stack' = WithTop([Top EXCEPT !.pc = "ap", !.retries = @ - 1]) \o RemoteApCall
    /\ log' = Append(log, Ev("print", "Failed to connect, retrying"))
    /\ UNCHANGED <<call, ret, outcome, now, rx, wire, modem, faults, strict>>

(***************************************************************************)
(* is_connected, local_ip and get_APs, lines 131-144, 197-204 and 229-252. *)
(***************************************************************************)
IsConnected ==
    /\ Running("is_connected", "state")
    /\ Return(IsConnectedValue(ret))
    /\ UNCHANGED <<call, now, rx, wire, log, modem, faults, strict>>

LocalIpDecode ==
    /\ Running("local_ip", "decode")
    /\ Finish(LocalIpValue(ret.v))
    /\ UNCHANGED <<call, now, rx, wire, log, modem, faults, strict>>

\* Lines 233-235: the next iteration reads the mode; when the loop is
\* exhausted the function ends without a return statement.
GetApsFor ==
    /\ Running("get_APs", "for")
    /\ IF Top.i < Top.retries
       THEN /\ stack' = WithTop([Top EXCEPT !.i = @ + 1, !.pc = "mode"]) \o ModeCall
            /\ UNCHANGED <<ret, outcome>>
       ELSE Return(PyNone)
    /\ UNCHANGED <<call, now, rx, wire, log, modem, faults, strict>>

\* Lines 235-237 without the test of the mode: the scan is always sent
GetApsMode_NoModeTest ==
    /\ Running("get_APs", "mode")
    /\ stack' = WithTop([Top EXCEPT !.pc = "scan"]) \o <<SendFrame(S_CWLAP, 5, 3)>>
    /\ UNCHANGED <<call, ret, outcome, now, rx, wire, log, modem, faults, strict>>

\* Lines 235-237: the mode was read; set it if it is not station mode, else
\* scan.  The setter does not return (see ModeSet), so line 237 is reached
\* from line 235 only.
GetApsMode ==
    /\ Running("get_APs", "mode")
    /\ IF ~PyEq(ret, PyInt(MODE_STATION))
       THEN stack' = WithTop([Top EXCEPT !.pc = "set"]) \o ModeSetCall(MODE_STATION)
       ELSE stack' = WithTop([Top EXCEPT !.pc = "scan"]) \o <<SendFrame(S_CWLAP, 5, 3)>>
    /\ UNCHANGED <<call, ret, outcome, now, rx, wire, log, modem, faults, strict>>

\* Lines 237-252
GetApsScan ==
    /\ Running("get_APs", "scan")
    /\ Return(ScanValue(ret.v))
    /\ UNCHANGED <<call, now, rx, wire, log, modem, faults, strict>>

\* Lines 238-239: continue
GetApsExcept ==
    /\ Running("get_APs", "except")
    /\ stack' = WithTop([Top EXCEPT !.pc = "for"])
    /\ UNCHANGED <<call, ret, outcome, now, rx, wire, log, modem, faults, strict>>

(***************************************************************************)
(* The host application: one call of the driver per behaviour.             *)
(***************************************************************************)
SSIDs == {<<"a">>, <<"b">>}
Passwords == {<<"p">>}
Hosts == {<<"h">>}

Idle == stack = <<>> /\ outcome.kind = "none"

HostCommands ==
    {S_CIPSTATUS} \cup {JoinCmd(s, p) : s \in {<<"a">>}, p \in Passwords}
                  \cup {PingCmd(h) : h \in Hosts}

\* The host calls fn(args): frames is the call stack it starts with
Begin(fn, args, frames) ==
    /\ call' = [fn |-> fn, args |-> args, modem |-> modem]
    /\ stack' = frames
    /\ UNCHANGED <<ret, outcome, now, rx, wire, log, modem, faults, strict>>

\* send_at_cmd(at_cmd, timeout), retries left at its default (line 56)
CallSendAtCmd ==
    /\ Idle
    /\ \E at_cmd \in HostCommands, timeout \in 1..MaxTimeout :
          Begin("send_at_cmd", [at_cmd |-> at_cmd, timeout |-> timeout, retries |-> 3],
                <<SendFrame(at_cmd, timeout, 3)>>)

CallStatus ==
    /\ Idle
    /\ Begin("status", <<>>, StatusCall)

CallRemoteAp ==
    /\ Idle
    /\ Begin("remote_AP", <<>>, RemoteApCall)

CallMode ==
    /\ Idle
    /\ Begin("mode", <<>>, ModeCall)

CallModeSet ==
    /\ Idle
    /\ \E mode \in 0..4 : Begin("mode_set", [mode |-> mode], ModeSetCall(mode))

CallJoinAp ==
    /\ Idle
    /\ \E ssid \in {<<"a">>}, password \in Passwords :
          Begin("join_ap", [ssid |-> ssid, password |-> password],
                JoinApCall(ssid, password))

CallConnect ==
    /\ Idle
    /\ \E ssid \in {<<"a">>}, password \in Passwords :
          Begin("connect", [ssid |-> ssid, password |-> password],
                ConnectCall([ssid |-> ssid, password |-> password]))

CallIsConnected ==
    /\ Idle
    /\ Begin("is_connected", <<>>, IsConnectedCall)

CallLocalIp ==
    /\ Idle
    /\ Begin("local_ip", <<>>, LocalIpCall)

\* get_APs(), retries left at its default (line 229)
CallGetAPs ==
    /\ Idle
    /\ Begin("get_APs", [retries |-> 3], GetApsCall(3))

Modems ==
    {[mode |-> m, status |-> s, ap |-> a, cond |-> "ok"] :
        m \in {MODE_STATION, MODE_SOFTAP, MODE_SOFTAPSTATION},
        s \in {STATUS_APCONNECTED, STATUS_NOTCONNECTED},
        a \in SSIDs \cup {<<>>}}

Init ==
    /\ stack = <<>>
    /\ ret = NoValue
    /\ outcome = [kind |-> "none", value |-> NoValue, exc |-> NoExc]
    /\ now = 0
    /\ rx = <<>>
    /\ wire = <<>>
    /\ log = <<>>
    /\ modem \in {m \in Modems : (m.status = STATUS_APCONNECTED) <=> (m.ap # <<>>)}
    /\ call = [fn |-> "none", args |-> <<>>, modem |-> modem]
    /\ faults = 0
    /\ strict = "untried"

Next ==
    \/ CallSendAtCmd
    \/ CallStatus
    \/ CallRemoteAp
    \/ CallMode
    \/ CallModeSet
    \/ CallJoinAp
    \/ CallConnect
    \/ CallIsConnected
    \/ CallLocalIp
    \/ CallGetAPs
    \/ Attempt
    \/ ReadByte
    \/ Tick
    \/ Deadline
    \/ Accept
    \/ Retry
    \/ GiveUp
    \/ StatusDecode
    \/ RemoteApStatus
    \/ RemoteApDecode
    \/ ModeDecode
    \/ ModeSet
    \/ JoinApMode
    \/ JoinApRouter
    \/ JoinApReply
    \/ ConnectAp
    \/ ConnectJoined
    \/ ConnectExcept
    \/ IsConnected
    \/ LocalIpDecode
    \/ GetApsFor
    \/ GetApsMode
    \/ GetApsScan
    \/ GetApsExcept

Spec == Init /\ [][Next]_vars

\* send_at_cmd called by the host, on its own
SendNext ==
    \/ CallSendAtCmd
    \/ Attempt
    \/ ReadByte
    \/ Tick
    \/ Deadline
    \/ Accept
    \/ Retry
    \/ GiveUp

SendSpec == Init /\ [][SendNext]_vars

\* The driver keeps running and the clock keeps advancing: a step of
\* send_at_cmd that can be taken is taken, and time.time() does not stay
\* below a deadline for ever.
LiveSpec ==
    /\ SendSpec
    /\ WF_vars(Attempt \/ ReadByte \/ Deadline \/ Accept \/ Retry \/ GiveUp)
    /\ WF_vars(Tick)

(***************************************************************************)
(* Properties.  The log of one attempt of send_at_cmd is: the write of the *)
(* command, the write of CR LF, the end of the read loop ("break" or       *)
(* "deadline", with the buffer), and then "return" or "sleep"; a call that *)
(* fails ends with "raise".                                                *)
(***************************************************************************)
IsFrame(e) == e.ev \in {"break", "deadline"}

\* The command of the attempt whose read loop ended at log[i]
CmdOf(i) == log[i - 2].data

\* C1: whenever an attempt of send_at_cmd ends with a buffer whose last four
\* bytes are OK CR LF, send_at_cmd returns in that attempt, and what it
\* returns is the buffer without those four bytes, for join and ping
\* commands too.
C1_OkSuffixStripped ==
    \A i \in 1..(Len(log) - 1) :
        (IsFrame(log[i]) /\ EndsWith(log[i].data, B_OK)) =>
            /\ log[i + 1].ev = "return"
            /\ log[i + 1].data \o B_OK = log[i].data

C1_Witness ==
    \E i \in 1..(Len(log) - 1) :
        /\ IsFrame(log[i])
        /\ EndsWith(log[i].data, B_OK)
        /\ Contains(CmdOf(i), S_PING)
        /\ log[i + 1].ev = "return"

\* C2: when an attempt of a join command (AT+CWJAP= in its text) ends with a
\* buffer that contains WIFI GOT IP CR LF, send_at_cmd returns the whole
\* buffer in that attempt: nothing is written, slept or raised in between.
C2_JoinGotIpReturnsFull ==
    \A i \in 1..(Len(log) - 1) :
        (/\ IsFrame(log[i])
         /\ Contains(CmdOf(i), S_CWJAP_EQ)
         /\ Contains(log[i].data, B_WIFI_GOT_IP)) =>
            /\ log[i + 1].ev = "return"
            /\ log[i + 1].data = log[i].data

C2_Witness ==
    \E i \in 1..(Len(log) - 1) :
        /\ IsFrame(log[i])
        /\ Contains(CmdOf(i), S_CWJAP_EQ)
        /\ Contains(log[i].data, B_WIFI_GOT_IP)
        /\ ~EndsWith(log[i].data, B_OK)
        /\ log[i + 1].ev = "return"

\* C3: when an attempt ends with a buffer whose last bytes are ERROR CR LF,
\* a ping command (AT+PING in its text) returns the whole buffer in that
\* attempt, and a command that is neither ping nor join sleeps and retries.
C3_PingErrorIsResult ==
    \A i \in 1..(Len(log) - 1) :
        (IsFrame(log[i]) /\ EndsWith(log[i].data, B_ERROR)) =>
            IF Contains(CmdOf(i), S_PING)
            THEN /\ log[i + 1].ev = "return"
                 /\ log[i + 1].data = log[i].data
            ELSE Contains(CmdOf(i), S_CWJAP_EQ) \/ log[i + 1].ev = "sleep"

C3_Witness ==
    \E i \in 1..(Len(log) - 1) :
        /\ IsFrame(log[i])
        /\ EndsWith(log[i].data, B_ERROR)
        /\ Contains(CmdOf(i), S_PING)
        /\ log[i + 1].ev = "return"
        /\ outcome.kind = "returned"

\* No byte reached the driver during the call
NoByteDelivered ==
    /\ rx = <<>>
    /\ wire = <<>>
    /\ \A i \in 1..Len(log) : IsFrame(log[i]) => log[i].data = <<>>

SilentCallFailed ==
    /\ call.fn = "send_at_cmd"
    /\ call.args.timeout = 1
    /\ call.args.retries = 3
    /\ outcome.kind = "raised"
    /\ NoByteDelivered

\* C4: when no byte is ever delivered, send_at_cmd(at_cmd, timeout=1,
\* retries=3) has failed only after the command was written exactly three
\* times and each of the three read loops ended at its deadline, one tick or
\* more after the write.
C4_FailureAfterThreeDeadlines ==
    SilentCallFailed =>
        LET writes == {i \in 1..Len(log) :
                          log[i].ev = "write" /\ log[i].data = call.args.at_cmd}
        IN  /\ Cardinality(writes) = 3
            /\ \A w \in writes :
                  /\ w + 2 <= Len(log)
                  /\ log[w + 2].ev = "deadline"
                  /\ log[w + 2].at >= log[w].at + call.args.timeout
            /\ \A i \in 1..Len(log) :
                  log[i].ev = "raise" => \A w \in writes : w + 2 < i

C4_Witness == SilentCallFailed

\* C8 as stated: the failure of send_at_cmd carries the buffer of the last
\* attempt and is a ProtocolError when a terminator was seen in some
\* attempt, a Timeout when none was.
C8_FailureCarriesBuffer ==
    \A i \in 1..Len(log) :
        log[i].ev = "raise" =>
            /\ log[i].data.arg = log[i - 2].data
            /\ log[i].data.type =
                  IF \E j \in {i - 2, i - 6, i - 10} : log[j].ev = "break"
                  THEN "ProtocolError"
                  ELSE "Timeout"

\* C8, amended: when every attempt of send_at_cmd ends without an accepted
\* reply, the failure is the exception Exception("No OK response to " +
\* at_cmd), raised after the third attempt; it names the command, carries no
\* buffer, and is the same whether the attempts ended at their deadline or
\* at a terminator.
C8_FailureNamesCommand ==
    \A i \in 1..Len(log) :
        log[i].ev = "raise" =>
            /\ i > 12
            /\ \A j \in {i - 2, i - 6, i - 10} :
                  IsFrame(log[j]) /\ CmdOf(j) = log[i - 4].data
            /\ log[i].data = Exc("Exception", "No OK response to ", log[i - 4].data)

C8_Witness ==
    \E i \in 1..Len(log) :
        /\ log[i].ev = "raise"
        /\ log[i - 2].ev = "break"
        /\ log[i - 2].data # <<>>
        /\ outcome.kind = "raised"

IsJoinWrite(e) == e.ev = "write" /\ Contains(e.data, S_CWJAP_EQ)

\* The module was associated with the ssid of the call when join_ap or
\* connect was called
AssociatedAtCall ==
    /\ call.modem.status = STATUS_APCONNECTED
    /\ call.modem.ap = call.args.ssid

\* The reply accepted for AT+CWJAP? names the ssid of the call: its first
\* +CWJAP: line has the ssid as its first field
ReportsSsid ==
    \E i \in 4..Len(log) :
        /\ log[i].ev = "return"
        /\ log[i - 3].ev = "write"
        /\ log[i - 3].data = S_CWJAP_Q
        /\ PyEq(ApValue(log[i].data, FALSE).value.v[1], PyStr(call.args.ssid))

\* C5 as stated: join_ap called while the module is associated with the
\* ssid performs no transport write.
C5_NoWriteWhenAssociated ==
    (call.fn = "join_ap" /\ AssociatedAtCall) =>
        \A i \in 1..Len(log) : log[i].ev # "write"

\* C5, amended: when join_ap(ssid, password) is called and the reply to
\* AT+CWJAP? names ssid, the only commands join_ap writes are the queries
\* AT+CWMODE?, AT+CIPSTATUS and AT+CWJAP?, each followed by CR LF: it writes
\* no join command and no mode-set command, and it returns normally if
\* line 166 does not raise.
C5_OnlyQueriesWritten ==
    (call.fn = "join_ap" /\ ReportsSsid) =>
        /\ \A i \in 1..Len(log) :
              log[i].ev = "write" =>
                  log[i].data \in {S_CWMODE_Q, S_CIPSTATUS, S_CWJAP_Q, CRLF}
        /\ (stack = <<>> /\ strict = "compares") =>
              outcome = [kind |-> "returned", value |-> PyNone, exc |-> NoExc]

C5_Witness ==
    /\ call.fn = "join_ap"
    /\ AssociatedAtCall
    /\ ReportsSsid
    /\ outcome.kind = "returned"

\* C6: join_ap called while the module is associated with the ssid (and
\* answers every command as documented) returns normally and never writes
\* the join command.
C6_ReturnsWithoutJoin ==
    (/\ call.fn = "join_ap"
     /\ AssociatedAtCall
     /\ faults = 0
     /\ strict # "TypeError") =>
        /\ \A i \in 1..Len(log) : ~IsJoinWrite(log[i])
        /\ outcome.kind # "raised"

\* C7: the failure of a command that exhausted its attempts never escapes
\* from connect.
C7_ConnectAbsorbsFailures ==
    call.fn = "connect" =>
        ~(outcome.kind = "raised" /\ outcome.exc.msg = "No OK response to ")

\* "AT+CWMODE=%d" % mode, line 195
ModeSetCmd(mode) == S_CWMODE_EQ \o <<Digit(mode)>>

\* C9: join_ap called while the module reports mode 2 or 3 (and answers
\* every command as documented) does not fail because of the mode, and has
\* written AT+CWMODE=1 before it writes the query of the current access
\* point or a join command, and before it ends.
C9_ModeSetBeforeJoin ==
    (/\ call.fn = "join_ap"
     /\ call.modem.mode # MODE_STATION
     /\ faults = 0) =>
        /\ outcome.kind # "raised"
        /\ \A i \in 1..Len(log) :
              (log[i].ev = "write" /\ (log[i].data = S_CWJAP_Q \/ IsJoinWrite(log[i]))) =>
                  \E j \in 1..(i - 1) :
                      log[j].ev = "write" /\ log[j].data = ModeSetCmd(MODE_STATION)
        /\ outcome.kind = "returned" =>
              \E j \in 1..Len(log) :
                  log[j].ev = "write" /\ log[j].data = ModeSetCmd(MODE_STATION)

\* C10: setting the mode to a value outside {1, 2, 3} fails with
\* RuntimeError("Invalid Mode") and writes nothing; setting it to 1, 2 or 3
\* writes exactly AT+CWMODE=<value> and CR LF and completes.
C10_ModeSetChecked ==
    (call.fn = "mode_set" /\ outcome.kind # "none") =>
        IF call.args.mode \in {MODE_STATION, MODE_SOFTAP, MODE_SOFTAPSTATION}
        THEN /\ outcome.kind = "returned"
             /\ Len(log) >= 2
             /\ log[1].ev = "write" /\ log[1].data = ModeSetCmd(call.args.mode)
             /\ log[2].ev = "write" /\ log[2].data = CRLF
             /\ \A i \in 3..Len(log) : log[i].ev # "write"
        ELSE /\ outcome.kind = "raised"
             /\ outcome.exc = Exc("RuntimeError", "Invalid Mode", <<>>)
             /\ log = <<>>

\* log[i] is the return of send_at_cmd("AT+CIPSTATUS"), the reply status
\* decodes (line 149)
StatusReplyAt(i) ==
    /\ i > 3
    /\ log[i].ev = "return"
    /\ log[i - 3].ev = "write"
    /\ log[i - 3].data = S_CIPSTATUS

\* status returned a value, and the value is not STATUS_APCONNECTED
StatusNotApConnectedAt(i) ==
    /\ StatusReplyAt(i)
    /\ StatusValue(log[i].data).ok
    /\ ~PyEq(StatusValue(log[i].data).value, PyInt(STATUS_APCONNECTED))

\* C11: when status returns a value other than 2 (None included) to
\* remote_AP, read by the host or by join_ap, the next command written, if
\* there is one, is not AT+CWJAP?, and a read of remote_AP by the host
\* writes no AT+CWJAP? at all and returns the list of four None.
C11_NullRecordWithoutQuery ==
    \A i \in 1..Len(log) :
        (call.fn \in {"remote_AP", "join_ap"} /\ StatusNotApConnectedAt(i)) =>
            /\ \A j \in (i + 1)..Len(log) :
                  (/\ log[j].ev = "write"
                   /\ \A k \in (i + 1)..(j - 1) : log[k].ev # "write") =>
                      log[j].data # S_CWJAP_Q
            /\ call.fn = "remote_AP" =>
                  /\ \A j \in 1..Len(log) :
                        log[j].ev = "write" => log[j].data \in {S_CIPSTATUS, CRLF}
                  /\ stack = <<>> =>
                        outcome = [kind |-> "returned", value |-> NullRecord, exc |-> NoExc]

C11_Witness ==
    /\ call.fn = "remote_AP"
    /\ \E i \in 1..Len(log) :
          /\ StatusReplyAt(i)
          /\ StatusValue(log[i].data) = Ok(PyInt(STATUS_NOTCONNECTED))
    /\ outcome = [kind |-> "returned", value |-> NullRecord, exc |-> NoExc]

\* The commands written so far, in order, without the CR LF after each
CmdWrites ==
    LET w == SelectSeq(log, LAMBDA e : e.ev = "write" /\ e.data # CRLF)
    IN  [i \in 1..Len(w) |-> w[i].data]

\* Every reply so far was accepted on the first attempt
FirstAttemptOnly == \A i \in 1..Len(log) : log[i].ev \notin {"sleep", "raise"}

\* A command that changes the state of the module: a mode-set or a join
ChangesModule(at_cmd) == StartsWith(at_cmd, S_CWMODE_EQ) \/ Contains(at_cmd, S_CWJAP_EQ)

IsQueryCall == call.fn \in {"status", "remote_AP", "local_ip", "get_APs"}

\* log[i] is the return of send_at_cmd("AT+CWMODE?") with a reply that mode
\* decodes to MODE_STATION
StationModeReplyAt(i) ==
    /\ i > 3
    /\ log[i].ev = "return"
    /\ log[i - 3].ev = "write"
    /\ log[i - 3].data = S_CWMODE_Q
    /\ ModeValue(log[i].data) = Ok(PyInt(MODE_STATION))

\* C12 as stated: a call of status, remote_AP, local_ip or get_APs in which
\* every reply is accepted on the first attempt has written exactly one
\* command when it returns, and none that changes the state of the module.
C12_OneCommandPerQuery ==
    (IsQueryCall /\ FirstAttemptOnly /\ outcome.kind = "returned") =>
        /\ Len(CmdWrites) = 1
        /\ ~ChangesModule(CmdWrites[1])

\* C12, amended: when every reply is accepted on the first attempt, status
\* has written exactly AT+CIPSTATUS and local_ip exactly AT+CIFSR when they
\* end; remote_AP has written AT+CIPSTATUS, followed by AT+CWJAP? exactly
\* when status gave 2; get_APs has written AT+CWMODE? once for each of its
\* loops (at most retries), followed by AT+CWLAP exactly when the mode read
\* is 1.  None of the four ever writes a mode-set or a join command.
C12_QueryCommands ==
    IsQueryCall =>
        /\ \A i \in 1..Len(CmdWrites) : ~ChangesModule(CmdWrites[i])
        /\ (FirstAttemptOnly /\ outcome.kind # "none") =>
              CASE call.fn = "status" -> CmdWrites = <<S_CIPSTATUS>>
                [] call.fn = "local_ip" -> CmdWrites = <<S_CIFSR>>
                [] call.fn = "remote_AP" ->
                      CmdWrites =
                         IF \E i \in 1..Len(log) :
                               /\ StatusReplyAt(i)
                               /\ StatusValue(log[i].data) = Ok(PyInt(STATUS_APCONNECTED))
                         THEN <<S_CIPSTATUS, S_CWJAP_Q>>
                         ELSE <<S_CIPSTATUS>>
                [] call.fn = "get_APs" ->
                      \E k \in 1..call.args.retries :
                          CmdWrites =
                             [i \in 1..k |-> S_CWMODE_Q]
                                \o (IF \E i \in 1..Len(log) : StationModeReplyAt(i)
                                    THEN <<S_CWLAP>> ELSE <<>>)

C12_Witness ==
    /\ call.fn = "get_APs"
    /\ FirstAttemptOnly
    /\ outcome.kind = "returned"
    /\ outcome.value.t = "list"
    /\ outcome.value.v # <<>>
    /\ CmdWrites = <<S_CWMODE_Q, S_CWLAP>>

\* log[i] is the return of send_at_cmd for a join command
JoinReplyAt(i) ==
    /\ i > 3
    /\ log[i].ev = "return"
    /\ log[i - 3].ev = "write"
    /\ Contains(log[i - 3].data, S_CWJAP_EQ)

\* C13: connect returns True only if the module was associated with the
\* ssid of the secrets (when connect was called, or by the reply to
\* AT+CWJAP?) or the accepted reply to the join command contained WIFI GOT
\* IP; after a join whose reply lacks a marker (which join_ap prints) it
\* does not return True.
C13_TrueOnlyIfJoined ==
    (/\ call.fn = "connect"
     /\ outcome = [kind |-> "returned", value |-> PyBool(TRUE), exc |-> NoExc]) =>
        /\ \/ AssociatedAtCall
           \/ ReportsSsid
           \/ \E i \in 1..Len(log) :
                 JoinReplyAt(i) /\ Contains(log[i].data, DropLast(B_WIFI_GOT_IP, 2))
        /\ \A i \in 1..Len(log) :
              ~(log[i].ev = "print" /\ log[i].data \in {"no CONNECTED", "no IP"})

\* The places of the log where a join command is written
JoinWrites == {i \in 1..Len(log) : IsJoinWrite(log[i])}

\* C14: a call of join_ap that goes on to the join command writes it at
\* most three times, whatever the module does.
C14_JoinWrittenAtMostThrice ==
    call.fn = "join_ap" => Cardinality(JoinWrites) <= 3

C14_Witness ==
    /\ call.fn = "join_ap"
    /\ Cardinality(JoinWrites) = 3
    /\ outcome.kind = "raised"
    /\ outcome.exc.msg = "No OK response to "

\* No line of the payload starts with STATUS:
NoStatusLine(payload) ==
    \A k \in 1..Len(Split(payload, CRLF)) : ~StartsWith(Split(payload, CRLF)[k], B_STATUS)

\* C15: when the accepted reply to AT+CIPSTATUS has no line that starts with
\* STATUS:, a call of status, is_connected or remote_AP does not return a
\* value: the failure to decode reaches the caller.
C15_StatusDecodeFailureSurfaced ==
    (/\ call.fn \in {"status", "is_connected", "remote_AP"}
     /\ \E i \in 1..Len(log) : StatusReplyAt(i) /\ NoStatusLine(log[i].data)) =>
        outcome.kind # "returned"

\* The number of the attempt, within its call of send_at_cmd, whose read
\* loop ended at log[j]: the attempt before it ended with a sleep
RECURSIVE AttemptNo(_)
AttemptNo(j) ==
    IF j > 4 /\ log[j - 3].ev = "sleep" THEN 1 + AttemptNo(j - 4) ELSE 1

\* Every attempt is: the command written once, CR LF written once, then the
\* read loop; nothing is read or written in between
AttemptsWellFormed ==
    /\ \A i \in 1..Len(log) :
          (log[i].ev = "write" /\ log[i].data # CRLF) =>
              /\ i + 1 <= Len(log)
              /\ log[i + 1].ev = "write" /\ log[i + 1].data = CRLF
              /\ i + 2 <= Len(log) => IsFrame(log[i + 2])
    /\ \A j \in 1..Len(log) :
          IsFrame(log[j]) =>
              /\ j > 2
              /\ log[j - 1].ev = "write" /\ log[j - 1].data = CRLF
              /\ log[j - 2].ev = "write" /\ log[j - 2].data # CRLF
    /\ \A i \in 1..Len(log) :
          (log[i].ev = "write" /\ log[i].data = CRLF) =>
              i > 1 /\ log[i - 1].ev = "write" /\ log[i - 1].data # CRLF

\* The read loop that ended at log[j] ended at ERROR CR LF, at ERR CODE: or,
\* for a command that is not a join, at WIFI CONNECTED CR LF, and the buffer
\* does not end in OK CR LF
EndedUnaccepted(j) ==
    /\ log[j].ev = "break"
    /\ ~EndsWith(log[j].data, B_OK)
    /\ \/ EndsWith(log[j].data, B_ERROR)
       \/ Contains(log[j].data, B_ERR_CODE)
       \/ ~Contains(CmdOf(j), S_CWJAP_EQ) /\ Contains(log[j].data, B_WIFI_CONNECTED)

\* After the frame at log[j]: a sleep of one unit, and then the command is
\* written again if fewer than retries (3 at every call) attempts were
\* made, else the failure is raised
RetriedAfterBackoff(j) ==
    /\ j + 1 <= Len(log) => log[j + 1].ev = "sleep"
    /\ j + 2 <= Len(log) =>
          IF AttemptNo(j) < 3
          THEN /\ log[j + 2].ev = "write"
               /\ log[j + 2].data = CmdOf(j)
               /\ log[j + 2].at = log[j + 1].at + 1
          ELSE log[j + 2].ev = "raise"

\* One to retries transmissions for every call of send_at_cmd
TransmissionsBounded ==
    /\ \A j \in 1..Len(log) : IsFrame(log[j]) => AttemptNo(j) \in 1..3
    /\ \A i \in 1..Len(log) :
          log[i].ev \in {"return", "raise"} => i > 3 /\ log[i - 3].ev = "write"
    /\ (call.fn = "send_at_cmd" /\ outcome.kind # "none") =>
          Len(CmdWrites) \in 1..call.args.retries

\* C16 as stated: every attempt writes the command and CR LF once before
\* anything is read; an attempt whose read loop ended without a trailing OK
\* (at ERROR, ERR CODE:, or WIFI CONNECTED for a non-join command) is
\* followed by a sleep of one unit and the next transmission, or by the
\* failure after the last attempt; a call transmits 1 to retries times.
C16_UnacceptedFrameRetried ==
    /\ AttemptsWellFormed
    /\ \A j \in 1..Len(log) : EndedUnaccepted(j) => RetriedAfterBackoff(j)
    /\ TransmissionsBounded

\* C16, amended: the same, except that a ping command (AT+PING in its text)
\* whose buffer contains ERROR CR LF is not retried: the buffer is returned
\* at once.
C16_UnacceptedFrameRetriedUnlessPing ==
    /\ AttemptsWellFormed
    /\ \A j \in 1..Len(log) :
          EndedUnaccepted(j) =>
              IF Contains(CmdOf(j), S_PING) /\ Contains(log[j].data, B_ERROR)
              THEN j + 1 <= Len(log) =>
                      log[j + 1].ev = "return" /\ log[j + 1].data = log[j].data
              ELSE RetriedAfterBackoff(j)
    /\ TransmissionsBounded

C16_Witness ==
    \E j \in 1..Len(log) :
        /\ EndedUnaccepted(j)
        /\ ~Contains(CmdOf(j), S_PING)
        /\ Contains(log[j].data, B_WIFI_CONNECTED)
        /\ j + 2 <= Len(log)
        /\ log[j + 1].ev = "sleep"
        /\ log[j + 2].ev = "write"

\* A join command read on after WIFI CONNECTED CR LF: the buffer of the
\* frame at log[j] holds the marker and at least one byte more
JoinReadPastConnected(j) ==
    /\ IsFrame(log[j])
    /\ Contains(CmdOf(j), S_CWJAP_EQ)
    /\ Contains(log[j].data, B_WIFI_CONNECTED)
    /\ ~EndsWith(log[j].data, B_WIFI_CONNECTED)

\* C17: a read loop that broke never broke at WIFI CONNECTED for a join
\* command (its buffer ends with OK, ERROR, WIFI GOT IP CR LF or ERR CODE:)
\* and never at WIFI GOT IP for another command (its buffer ends with OK,
\* ERROR, WIFI CONNECTED CR LF or ERR CODE:); for a command that is not a
\* join, a buffer that holds WIFI CONNECTED CR LF ends with it, the read
\* loop having broken there; and while the loop still reads, the buffer
\* does not hold the marker of its command.
C17_AsymmetricTerminators ==
    /\ \A j \in 1..Len(log) :
          IsFrame(log[j]) =>
              IF Contains(CmdOf(j), S_CWJAP_EQ)
              THEN log[j].ev = "break" =>
                      \/ EndsWith(log[j].data, B_OK)
                      \/ EndsWith(log[j].data, B_ERROR)
                      \/ EndsWith(log[j].data, B_WIFI_GOT_IP)
                      \/ EndsWith(log[j].data, B_ERR_CODE)
              ELSE /\ log[j].ev = "break" =>
                         \/ EndsWith(log[j].data, B_OK)
                         \/ EndsWith(log[j].data, B_ERROR)
                         \/ EndsWith(log[j].data, B_WIFI_CONNECTED)
                         \/ EndsWith(log[j].data, B_ERR_CODE)
                   /\ Contains(log[j].data, B_WIFI_CONNECTED) =>
                         log[j].ev = "break" /\ EndsWith(log[j].data, B_WIFI_CONNECTED)
    /\ Running("send_at_cmd", "read") =>
          IF Contains(Top.at_cmd, S_CWJAP_EQ)
          THEN ~Contains(Top.response, B_WIFI_GOT_IP)
          ELSE ~Contains(Top.response, B_WIFI_CONNECTED)

C17_Witness ==
    \E j \in 1..Len(log) :
        /\ JoinReadPastConnected(j)
        /\ log[j].ev = "break"
        /\ EndsWith(log[j].data, B_WIFI_GOT_IP)

\* C18: the failure of send_at_cmd is raised right after the read loop of
\* the last attempt, at the time that loop ended: no sleep lies between the
\* last attempt and the failure.
C18_NoSleepAfterLastAttempt ==
    \A i \in 1..Len(log) :
        log[i].ev = "raise" =>
            /\ i > 1
            /\ IsFrame(log[i - 1])
            /\ log[i].at = log[i - 1].at

\* Every read loop of a host call of send_at_cmd has ended, or will, by its
\* deadline, and no more than retries attempts are made
AttemptsEndByDeadline ==
    /\ Running("send_at_cmd", "read") => now <= Top.stamp + Top.timeout
    /\ \A j \in 1..Len(log) :
          IsFrame(log[j]) => log[j].at <= log[j - 2].at + call.args.timeout
    /\ call.fn = "send_at_cmd" => Len(CmdWrites) <= call.args.retries

SendAtCmdEnded ==
    /\ stack = <<>>
    /\ outcome.kind \in {"returned", "raised"}

\* C19: while the driver runs and the clock advances, every call of
\* send_at_cmd ends, with a payload or with the failure, whatever the module
\* sends (nothing, a reply, or bytes without end and without a terminator);
\* every read loop ends by its deadline, and at most retries attempts are
\* made.
C19_SendAtCmdTerminates ==
    /\ (call.fn = "send_at_cmd") ~> SendAtCmdEnded
    /\ []AttemptsEndByDeadline

C19_Witness ==
    /\ call.fn = "send_at_cmd"
    /\ modem.cond = "chatter"
    /\ outcome.kind = "raised"
    /\ Len(CmdWrites) = call.args.retries
    /\ \A j \in 1..Len(log) :
          IsFrame(log[j]) =>
              /\ log[j].ev = "deadline"
              /\ log[j].data # <<>>
              /\ log[j].at = log[j - 2].at + call.args.timeout

\* buf is the beginning of something the module sends in answer to at_cmd,
\* in one of its conditions and states
BeginsAnswerTo(at_cmd, buf) ==
    \/ \A k \in 1..Len(buf) : buf[k] = "x"
    \/ \E m \in Modems, c \in Conditions :
          \E r \in ModuleAnswers(at_cmd, [m EXCEPT !.cond = c]) : StartsWith(r.bytes, buf)

\* C20: the buffer of every attempt holds only bytes the module sent in
\* answer to that attempt: it is the beginning of an answer of the module
\* to the command of the attempt, and so is the buffer being read.  (Bytes
\* left unread by an earlier attempt or command would come first in it.)
C20_NoStaleBytes ==
    /\ \A j \in 1..Len(log) : IsFrame(log[j]) => BeginsAnswerTo(CmdOf(j), log[j].data)
    /\ Running("send_at_cmd", "read") => BeginsAnswerTo(Top.at_cmd, Top.response)

====
